---- MODULE Spec2Model ----
(***************************************************************************)
(* HashLinkListRep (util/hash_linklist_rep.cc): a fixed array of bucket    *)
(* heads, each the head of a sorted singly linked list of arena nodes,     *)
(* written by one writer and read by lock-free readers; with the prefix    *)
(* extractors of util/slice.cc that choose the bucket of an entry.         *)
(*                                                                         *)
(* Byte strings are sequences over Alphabet.  A memtable entry is          *)
(*   <<length of the internal key>> \o user key \o <<tag>>                  *)
(* the internal key being the user key followed by the tag (the sequence   *)
(* number and type of the outer memtable, one symbol here).                *)
(***************************************************************************)
EXTENDS Integers, Sequences, FiniteSets, TLC

\* ------------------------------------------------------------------ bounds
MaxNodes == 3
MaxBuckets == 2

Alphabet == {1, 2}
Tags == {1}
KeyLens == {1, 2}
PrefixLens == {1}

NULL == 0
Poison == -1
NoKey == <<>>

Nodes == 1..MaxNodes
Writers == {1, 2}
Readers == {1}

\* ------------------------------------------------ byte strings and entries
SeqsOfLen(n) == [1..n -> Alphabet]
UserKeys == UNION {SeqsOfLen(n) : n \in KeyLens}
InternalKeys == {u \o <<t>> : u \in UserKeys, t \in Tags}

\* encode_key: the memtable key of an internal key is length-prefixed.
EncodeKey(ikey) == <<Len(ikey)>> \o ikey
Entries == {EncodeKey(ik) : ik \in InternalKeys}

\* The length-prefixed slice of an entry, and its user key (the slice less
\* the trailing tag).
GetLengthPrefixedSlice(entry) == SubSeq(entry, 2, 1 + entry[1])
UserKey(entry) == SubSeq(entry, 2, entry[1])

Min(a, b) == IF a < b THEN a ELSE b

\* Three-way bytewise comparison of two byte strings: the first byte that
\* differs decides, then the shorter string is first.
BytewiseCompare(a, b) ==
    LET diff == {i \in 1..Min(Len(a), Len(b)) : a[i] # b[i]}
    IN  IF diff # {}
        THEN LET i == CHOOSE d \in diff : \A e \in diff : d <= e
             IN  IF a[i] < b[i] THEN -1 ELSE 1
        ELSE IF Len(a) < Len(b) THEN -1
        ELSE IF Len(a) > Len(b) THEN 1
        ELSE 0

\* compare_: the memtable key comparator, a total order on entries that
\* compares the length-prefixed internal keys.
compare_(a, b) ==
    BytewiseCompare(GetLengthPrefixedSlice(a), GetLengthPrefixedSlice(b))

\* MurmurHash(data, size, 0): a fixed deterministic hash of the bytes, from
\* seed 0, kept in a fixed width.
MurmurHash(s) ==
    LET h[n \in 0..Len(s)] ==
            IF n = 0 THEN 0 ELSE (h[n - 1] * 31 + s[n]) % (2 ^ 16)
    IN  h[Len(s)]

\* --------------------------------------------------- the prefix extractors
FixedPrefixTransform(k) == [kind |-> "fixed", len |-> k]
CappedPrefixTransform(k) == [kind |-> "capped", len |-> k]
NoopTransform == [kind |-> "noop", len |-> 0]

Transforms ==
    {FixedPrefixTransform(k) : k \in PrefixLens}
        \cup {CappedPrefixTransform(k) : k \in PrefixLens}
        \cup {NoopTransform}

InDomain(t, src) ==
    IF t.kind = "fixed" THEN Len(src) >= t.len ELSE TRUE

Transform(t, src) ==
    IF t.kind = "fixed" THEN SubSeq(src, 1, t.len)
    ELSE IF t.kind = "capped" THEN SubSeq(src, 1, Min(t.len, Len(src)))
    ELSE src

InRange(t, dst) ==
    IF t.kind = "fixed" THEN Len(dst) = t.len
    ELSE IF t.kind = "capped" THEN Len(dst) <= t.len
    ELSE TRUE

\* Mutant: the capped transform answers as its InDomain does.
SameResultWhenAppended_CappedAlways(t, prefix) ==
    IF t.kind = "fixed" THEN InDomain(t, prefix)
    ELSE IF t.kind = "capped" THEN TRUE
    ELSE FALSE

SameResultWhenAppended(t, prefix) ==
    IF t.kind = "fixed" THEN InDomain(t, prefix)
    ELSE IF t.kind = "capped" THEN Len(prefix) >= t.len
    ELSE FALSE

\* ------------------------------------------------------------------- state
VARIABLES
    bucket_size_,   \* number of buckets
    transform_,     \* the prefix extractor
    buckets_,       \* bucket index -> head node or NULL
    key,            \* node -> its entry (NoKey: memory not constructed)
    next_,          \* node -> successor (Poison: never stored)
    allocated,      \* nodes handed out by the arena so far
    w,              \* writer -> the locals of its Insert call (raced: the
                    \* call, or an earlier one, overlapped another writer's)
    r,              \* reader -> the locals of its Contains call
    it,             \* the iterator in use
    g,              \* what has been done with the iterator (history)
    inserted,       \* entries whose Insert has returned
    failed,         \* the assertion that aborted the program, or "none"
    sliceCall       \* a call on a SliceTransform: its inputs and results

vars ==
    <<bucket_size_, transform_, buckets_, key, next_, allocated, w, r, it, g,
      inserted, failed, sliceCall>>

index == <<bucket_size_, transform_, buckets_, key, next_, allocated>>

WriterIdle == [pc |-> "idle", key |-> NoKey, slot |-> 0, head |-> NULL,
               cur |-> NULL, prev |-> NULL, x |-> NULL, raced |-> FALSE]
ReaderIdle == [pc |-> "idle", key |-> NoKey, head |-> NULL, x |-> NULL,
               result |-> FALSE, after |-> FALSE, born |-> 0]
NoIterator == [kind |-> "none", head |-> NULL, node |-> NULL, list |-> <<>>,
               pos |-> 0]
NoHistory == [op |-> "none", phase |-> 0, target |-> NoKey,
              walking |-> FALSE, walk |-> <<>>, snap |-> {},
              prefix |-> NoKey, captured |-> NULL]

\* No call on a SliceTransform.
NoCall == [pc |-> "none", t |-> NoopTransform, prefix |-> NoKey,
           suffix |-> NoKey, same |-> FALSE, whole |-> NoKey,
           alone |-> NoKey]

\* HashLinkListRep::HashLinkListRep: every bucket head starts null.
Init ==
    /\ bucket_size_ = MaxBuckets
    /\ transform_ \in Transforms
    /\ buckets_ = [i \in 0..(bucket_size_ - 1) |-> NULL]
    /\ key = [n \in Nodes |-> NoKey]
    /\ next_ = [n \in Nodes |-> Poison]
    /\ allocated = 0
    /\ w = [i \in Writers |-> WriterIdle]
    /\ r = [i \in Readers |-> ReaderIdle]
    /\ it = NoIterator
    /\ g = NoHistory
    /\ inserted = {}
    /\ failed = "none"
    /\ sliceCall = NoCall

\* ---------------------------------------------------------------- helpers
GetHash(slice) == MurmurHash(slice) % bucket_size_

GetBucket(slice) == buckets_[GetHash(slice)]

Equal(a, b) == compare_(a, b) = 0

\* nullptr n is considered infinite
KeyIsAfterNode(k, n) == (n # NULL) /\ (compare_(key[n], k) < 0)

\* One iteration of the loop of FindGreaterOrEqualInBucket at node x:
\* load the successor, check the sortedness assertion, then advance or stop.
\* ub: the iteration read memory that was never initialized.
FindStep(head, x, k) ==
    IF x = NULL THEN [x |-> x, done |-> TRUE, ok |-> TRUE, ub |-> FALSE]
    ELSE IF x = Poison \/ key[x] = NoKey \/ next_[x] = Poison
              \/ (next_[x] # NULL /\ key[next_[x]] = NoKey)
    THEN [x |-> x, done |-> TRUE, ok |-> TRUE, ub |-> TRUE]
    ELSE LET next == next_[x]
             ok == (x = head) \/ (next = NULL) \/ KeyIsAfterNode(key[next], x)
         IN  IF KeyIsAfterNode(k, x)
             THEN [x |-> next, done |-> FALSE, ok |-> ok, ub |-> FALSE]
             ELSE [x |-> x, done |-> TRUE, ok |-> ok, ub |-> FALSE]

\* The whole walk from x, run without interruption: FindStep is repeated
\* until it leaves the loop (s ranges over the one value of the step).
RECURSIVE FindFrom(_, _, _, _)
FindFrom(head, x, k, fuel) ==
    CHOOSE f \in {IF s.done \/ ~s.ok \/ fuel = 0 THEN s
                  ELSE FindFrom(head, s.x, k, fuel - 1) :
                      s \in {FindStep(head, x, k)}} : TRUE

FindGreaterOrEqualInBucket(head, k) == FindFrom(head, head, k, MaxNodes + 1)

\* Mutant: any node at or after the key counts as a match.
BucketContains_NoEqual(head, k) ==
    \E f \in {FindGreaterOrEqualInBucket(head, k)} : f.x # NULL

BucketContains(head, k) ==
    \E f \in {FindGreaterOrEqualInBucket(head, k)} :
        f.x # NULL /\ Equal(k, key[f.x])

\* Mutant: the bucket is taken from the prefix of the internal key.
Contains_InternalKey(k) ==
    \E bucket \in {GetBucket(Transform(transform_,
                                        GetLengthPrefixedSlice(k)))} :
        IF bucket = NULL THEN FALSE ELSE BucketContains(bucket, k)

Contains(k) ==
    \E bucket \in {GetBucket(Transform(transform_, UserKey(k)))} :
        IF bucket = NULL THEN FALSE ELSE BucketContains(bucket, k)

\* The assertion, if any, that a whole walk from head for k trips.
WalkSite(head, k) ==
    LET f == FindGreaterOrEqualInBucket(head, k)
    IN  IF f.ub THEN "uninitialized read"
        ELSE IF ~f.ok THEN "FindGreaterOrEqualInBucket:432"
        ELSE "none"

ContainsSite(k) == WalkSite(GetBucket(Transform(transform_, UserKey(k))), k)

\* The nodes reached from node n by following successor links.
RECURSIVE ChainFrom(_, _)
ChainFrom(n, fuel) ==
    IF n = NULL \/ n = Poison \/ fuel = 0 THEN <<>>
    ELSE CHOOSE c \in {<<n>> \o ChainFrom(m, fuel - 1) : m \in {next_[n]}} : TRUE

Chain(i) == ChainFrom(buckets_[i], MaxNodes + 1)

\* ------------------------------------------------------------------ Insert
\* Calls of Insert that have not allocated their node yet.
Pending == Cardinality({i \in Writers : w[i].pc \in {"walk", "new"}})

Abort(site) ==
    /\ failed' = site
    /\ UNCHANGED <<index, w, r, it, g, inserted, sliceCall>>

\* Mutant: the prefix is taken of the internal key, not of the user key.
InsertSlot_InternalKey(k) ==
    GetHash(Transform(transform_, GetLengthPrefixedSlice(k)))

\* Insert, lines 322-336: the duplicate assertion, the bucket of the entry
\* and the load of its head.
InsertSlot(k) == GetHash(Transform(transform_, UserKey(k)))

InsertCall(i, k) ==
    /\ failed = "none"
    /\ w[i].pc = "idle"
    /\ allocated + Pending < MaxNodes
    /\ IF ~InDomain(transform_, UserKey(k)) THEN Abort("Transform:33")
       ELSE IF ContainsSite(k) # "none" THEN Abort(ContainsSite(k))
       ELSE IF Contains(k) THEN Abort("Insert:322")
       ELSE LET slot == InsertSlot(k)
                head == buckets_[slot]
                busy == \E j \in Writers \ {i} : w[j].pc # "idle"
            IN  /\ w' = [j \in Writers |->
                           IF j = i
                           THEN [pc |-> IF head = NULL THEN "new" ELSE "walk",
                                 key |-> k, slot |-> slot, head |-> head,
                                 cur |-> head, prev |-> NULL, x |-> NULL,
                                 raced |-> w[i].raced \/ busy]
                           ELSE [w[j] EXCEPT !.raced =
                                     @ \/ w[j].pc # "idle"]]
                /\ UNCHANGED <<index, r, it, g, inserted, failed, sliceCall>>

\* Mutant: the walk never advances, so every node is linked in at the head.
InsertWalkStep_AtHead(head, cur, prev, k) ==
    [cur |-> cur, prev |-> prev, done |-> TRUE, site |-> "none"]

\* One iteration of the walk of Insert, lines 338-357, at node cur.
InsertWalkStep(head, cur, prev, k) ==
    IF cur = NULL
    THEN [cur |-> cur, prev |-> prev, done |-> TRUE, site |-> "none"]
    ELSE IF key[cur] = NoKey \/ next_[cur] = Poison
              \/ (next_[cur] # NULL /\ key[next_[cur]] = NoKey)
    THEN [cur |-> cur, prev |-> prev, done |-> TRUE,
          site |-> "uninitialized read"]
    ELSE LET next == next_[cur]
             sorted == (cur = head) \/ (next = NULL)
                           \/ KeyIsAfterNode(key[next], cur)
         IN  IF ~sorted
             THEN [cur |-> cur, prev |-> prev, done |-> TRUE,
                   site |-> "Insert:345"]
             ELSE IF KeyIsAfterNode(k, cur)
             THEN [cur |-> next, prev |-> cur, done |-> FALSE,
                   site |-> "none"]
             ELSE [cur |-> cur, prev |-> prev, done |-> TRUE,
                   site |-> IF Equal(k, key[cur]) THEN "Insert:357"
                            ELSE "none"]

InsertWalk(i) ==
    /\ failed = "none"
    /\ w[i].pc = "walk"
    /\ LET s == InsertWalkStep(w[i].head, w[i].cur, w[i].prev, w[i].key)
       IN  IF s.site # "none" THEN Abort(s.site)
           ELSE /\ w' = [w EXCEPT ![i].cur = s.cur, ![i].prev = s.prev,
                                  ![i].pc = IF s.done THEN "new" ELSE "walk"]
                /\ UNCHANGED <<index, r, it, g, inserted, failed, sliceCall>>

\* NewNode: arena memory for a node, its key set by the constructor.
InsertNewNode(i) ==
    /\ failed = "none"
    /\ w[i].pc = "new"
    /\ allocated < MaxNodes
    /\ allocated' = allocated + 1
    /\ key' = [key EXCEPT ![allocated + 1] = w[i].key]
    /\ w' = [w EXCEPT ![i].x = allocated + 1, ![i].pc = "setnext"]
    /\ UNCHANGED <<bucket_size_, transform_, buckets_, next_, r, it, g,
                   inserted, failed, sliceCall>>

\* Mutant: the successor of the new node is never stored.
InsertSetNext_Skipped(i) ==
    /\ failed = "none"
    /\ w[i].pc = "setnext"
    /\ w' = [w EXCEPT ![i].pc = "publish"]
    /\ UNCHANGED <<index, r, it, g, inserted, failed, sliceCall>>

\* Mutant: the new node is always given a null successor.
InsertSetNext_Null(i) ==
    /\ failed = "none"
    /\ w[i].pc = "setnext"
    /\ next_' = [next_ EXCEPT ![w[i].x] = NULL]
    /\ w' = [w EXCEPT ![i].pc = "publish"]
    /\ UNCHANGED <<bucket_size_, transform_, buckets_, key, allocated, r,
                   it, g, inserted, failed, sliceCall>>

\* Mutant: the new node is made its own successor.
InsertSetNext_Self(i) ==
    /\ failed = "none"
    /\ w[i].pc = "setnext"
    /\ next_' = [next_ EXCEPT ![w[i].x] = w[i].x]
    /\ w' = [w EXCEPT ![i].pc = "publish"]
    /\ UNCHANGED <<bucket_size_, transform_, buckets_, key, allocated, r,
                   it, g, inserted, failed, sliceCall>>

\* x->NoBarrier_SetNext(cur): nullptr when the bucket was empty.
InsertSetNext(i) ==
    /\ failed = "none"
    /\ w[i].pc = "setnext"
    /\ next_' = [next_ EXCEPT ![w[i].x] = w[i].cur]
    /\ w' = [w EXCEPT ![i].pc = "publish"]
    /\ UNCHANGED <<bucket_size_, transform_, buckets_, key, allocated, r,
                   it, g, inserted, failed, sliceCall>>

\* Mutant: the head of the bucket is stored as well as the link of prev.
InsertPublish_Both(i) ==
    /\ failed = "none"
    /\ w[i].pc = "publish"
    /\ IF w[i].prev # NULL
       THEN next_' = [next_ EXCEPT ![w[i].prev] = w[i].x]
       ELSE UNCHANGED next_
    /\ buckets_' = [buckets_ EXCEPT ![w[i].slot] = w[i].x]
    /\ inserted' = inserted \cup {w[i].key}
    /\ w' = [w EXCEPT ![i] = [WriterIdle EXCEPT !.raced = w[i].raced]]
    /\ UNCHANGED <<bucket_size_, transform_, key, allocated, r, it, g,
                   failed, sliceCall>>

\* The release store that makes x reachable, and the return of Insert.
InsertPublish(i) ==
    /\ failed = "none"
    /\ w[i].pc = "publish"
    /\ IF w[i].prev # NULL
       THEN /\ next_' = [next_ EXCEPT ![w[i].prev] = w[i].x]
            /\ UNCHANGED buckets_
       ELSE /\ buckets_' = [buckets_ EXCEPT ![w[i].slot] = w[i].x]
            /\ UNCHANGED next_
    /\ inserted' = inserted \cup {w[i].key}
    /\ w' = [w EXCEPT ![i] = [WriterIdle EXCEPT !.raced = w[i].raced]]
    /\ UNCHANGED <<bucket_size_, transform_, key, allocated, r, it, g,
                   failed, sliceCall>>

Insert(i) ==
    \/ \E k \in Entries : InsertCall(i, k)
    \/ InsertWalk(i)
    \/ InsertNewNode(i)
    \/ InsertSetNext(i)
    \/ InsertPublish(i)

\* The walk of Insert run to its end: InsertWalkStep repeated until it
\* leaves the loop or an assertion fails.
RECURSIVE InsertWalkFrom(_, _, _, _, _)
InsertWalkFrom(head, cur, prev, k, fuel) ==
    CHOOSE f \in {IF s.done \/ s.site # "none" \/ fuel = 0 THEN s
                  ELSE InsertWalkFrom(head, s.cur, s.prev, k, fuel - 1) :
                      s \in {InsertWalkStep(head, cur, prev, k)}} : TRUE

\* A whole call of Insert with no other thread running: the steps above,
\* from the call to the release store, in one action.
InsertAtOnce(k) ==
    /\ failed = "none"
    /\ \A i \in Writers : w[i].pc = "idle"
    /\ allocated < MaxNodes
    /\ IF ~InDomain(transform_, UserKey(k)) THEN Abort("Transform:33")
       ELSE IF ContainsSite(k) # "none" THEN Abort(ContainsSite(k))
       ELSE IF Contains(k) THEN Abort("Insert:322")
       ELSE \E slot \in {InsertSlot(k)} :
            \E s \in {InsertWalkFrom(buckets_[slot], buckets_[slot], NULL, k,
                                     MaxNodes + 1)} :
            \E x \in {allocated + 1} :
               IF s.site # "none" THEN Abort(s.site)
               ELSE /\ allocated' = x
                    /\ key' = [key EXCEPT ![x] = k]
                    /\ IF s.prev # NULL
                       THEN /\ next_' = [next_ EXCEPT ![x] = s.cur,
                                                      ![s.prev] = x]
                            /\ UNCHANGED buckets_
                       ELSE /\ next_' = [next_ EXCEPT ![x] = s.cur]
                            /\ buckets_' = [buckets_ EXCEPT ![slot] = x]
                    /\ inserted' = inserted \cup {k}
                    /\ UNCHANGED <<bucket_size_, transform_, w, r, it, g,
                                   failed, sliceCall>>

\* ---------------------------------------------------- Contains by a reader
\* Contains, lines 373-377: the bucket of the key and the load of its head.
ContainsCall(j, k) ==
    /\ failed = "none"
    /\ r[j].pc = "idle"
    /\ IF ~InDomain(transform_, UserKey(k)) THEN Abort("Transform:33")
       ELSE LET bucket == GetBucket(Transform(transform_, UserKey(k)))
            IN  /\ r' = [r EXCEPT ![j] =
                           [pc |-> IF bucket = NULL THEN "done" ELSE "find",
                            key |-> k, head |-> bucket, x |-> bucket,
                            result |-> FALSE, after |-> k \in inserted,
                            born |-> Cardinality(inserted)]]
                /\ UNCHANGED <<index, w, it, g, inserted, failed, sliceCall>>

\* One iteration of FindGreaterOrEqualInBucket; on leaving the loop,
\* BucketContains compares the node found with the key.
ContainsFind(j) ==
    /\ failed = "none"
    /\ r[j].pc = "find"
    /\ LET s == FindStep(r[j].head, r[j].x, r[j].key)
       IN  IF s.ub THEN Abort("uninitialized read")
           ELSE IF ~s.ok THEN Abort("FindGreaterOrEqualInBucket:432")
           ELSE /\ r' = [r EXCEPT
                           ![j].x = s.x,
                           ![j].pc = IF s.done THEN "done" ELSE "find",
                           ![j].result = s.done /\ s.x # NULL
                                             /\ Equal(r[j].key, key[s.x])]
                /\ UNCHANGED <<index, w, it, g, inserted, failed, sliceCall>>

ContainsReturn(j) ==
    /\ failed = "none"
    /\ r[j].pc = "done"
    /\ r' = [r EXCEPT ![j] = ReaderIdle]
    /\ UNCHANGED <<index, w, it, g, inserted, failed, sliceCall>>

ContainsByReader(j) ==
    \/ \E k \in Entries : ContainsCall(j, k)
    \/ ContainsFind(j)
    \/ ContainsReturn(j)

\* --------------------------------------------------------------- iterators
\* FullList: the skip list of the full-order iterator, as the sorted
\* sequence of its keys.  Insert puts a key after the keys before it.
SkipListInsert(list, k) ==
    LET n == Cardinality({p \in DOMAIN list : compare_(list[p], k) < 0})
    IN  SubSeq(list, 1, n) \o <<k>> \o SubSeq(list, n + 1, Len(list))

\* SkipList::Iterator::Seek: the first position at or after the target,
\* 0 (no node) when there is none.
SkipListSeek(list, target) ==
    LET ge == {p \in DOMAIN list : compare_(list[p], target) >= 0}
    IN  IF ge = {} THEN 0 ELSE CHOOSE p \in ge : \A q \in ge : p <= q

Valid(i) ==
    IF i.kind = "full" THEN i.pos # 0
    ELSE IF i.kind \in {"prefix", "dynamic"} THEN i.node # NULL
    ELSE FALSE

KeyOf(i) == IF i.kind = "full" THEN i.list[i.pos] ELSE key[i.node]

\* The history of the iterator after operation op left it as ni: whether
\* a Seek that found a node was undone by Prev or SeekToFirst and then
\* repeated (phase 1, 2, 3), the keys of a walk by Next from SeekToFirst
\* (full order) or from Seek (per bucket), the entries inserted when the
\* iterator was made, and the prefix a per-bucket iterator was made for
\* with the bucket head read when it was made.
History(op, ni, target) ==
    [op |-> op,
     phase |->
        IF op = "Seek"
        THEN IF g.phase = 2 /\ g.target = target THEN 3
             ELSE IF Valid(ni) THEN 1 ELSE 0
        ELSE IF op \in {"Prev", "SeekToFirst"}
        THEN IF (g.phase \in {1, 3} /\ Valid(it)) \/ g.phase = 2 THEN 2 ELSE 0
        ELSE IF op = "Next" /\ Valid(ni) THEN g.phase
        ELSE 0,
     target |->
        IF op = "Seek" THEN target
        ELSE IF op \in {"Prev", "SeekToFirst"}
        THEN IF (g.phase \in {1, 3} /\ Valid(it)) \/ g.phase = 2
             THEN g.target ELSE NoKey
        ELSE IF op = "Next" THEN g.target
        ELSE NoKey,
     walking |->
        \/ ni.kind = "full" /\ op = "SeekToFirst"
        \/ ni.kind = "prefix" /\ op = "Seek"
        \/ ni.kind \in {"full", "prefix"} /\ op = "Next" /\ g.walking,
     walk |->
        IF (ni.kind = "full" /\ op = "SeekToFirst")
              \/ (ni.kind = "prefix" /\ op = "Seek")
        THEN IF Valid(ni) THEN <<KeyOf(ni)>> ELSE <<>>
        ELSE IF ni.kind \in {"full", "prefix"} /\ op = "Next" /\ g.walking
        THEN IF Valid(ni) THEN Append(g.walk, KeyOf(ni)) ELSE g.walk
        ELSE <<>>,
     snap |-> g.snap,
     prefix |-> g.prefix,
     captured |-> g.captured]

Did(op, ni, target) ==
    /\ \E n \in {ni} : it' = n /\ g' = History(op, n, target)
    /\ UNCHANGED <<index, w, r, inserted, failed, sliceCall>>

\* The keys GetIterator reads, bucket after bucket, each bucket from its
\* head along the successor links.
RECURSIVE VisitFrom(_)
VisitFrom(i) ==
    IF i >= bucket_size_ THEN <<>>
    ELSE CHOOSE v \in {[p \in DOMAIN c |-> key[c[p]]] \o VisitFrom(i + 1) :
                          c \in {Chain(i)}} : TRUE

\* Mutant: only the head of each bucket is read.
GetIteratorVisit_HeadsOnly ==
    LET heads == {i \in DOMAIN buckets_ : buckets_[i] # NULL}
        F[n \in 0..bucket_size_] ==
            IF n = 0 THEN <<>>
            ELSE IF (n - 1) \in heads THEN Append(F[n - 1], key[buckets_[n - 1]])
            ELSE F[n - 1]
    IN  F[bucket_size_]

GetIteratorVisit == VisitFrom(0)

RECURSIVE InsertAll(_, _, _)
InsertAll(list, ks, p) ==
    IF p > Len(ks) THEN list
    ELSE CHOOSE l \in {InsertAll(m, ks, p + 1) :
                          m \in {SkipListInsert(list, ks[p])}} : TRUE

\* GetIterator: a skip list of every key of every bucket, built while no
\* Insert is in progress, and an iterator on it that is not positioned.
GetIterator ==
    /\ failed = "none"
    /\ \A i \in Writers : w[i].pc = "idle"
    /\ it' = [kind |-> "full", head |-> NULL, node |-> NULL,
              list |-> InsertAll(<<>>, GetIteratorVisit, 1), pos |-> 0]
    /\ g' = [NoHistory EXCEPT !.op = "GetIterator", !.snap = inserted]
    /\ UNCHANGED <<index, w, r, inserted, failed, sliceCall>>

\* GetPrefixIterator: an iterator on the bucket of the prefix, or an empty
\* iterator when that bucket is empty.
GetPrefixIterator(prefix) ==
    /\ failed = "none"
    /\ LET bucket == GetBucket(prefix)
       IN  it' = [NoIterator EXCEPT
                      !.kind = IF bucket = NULL THEN "empty" ELSE "prefix",
                      !.head = bucket]
    /\ g' = [NoHistory EXCEPT !.op = "GetPrefixIterator", !.prefix = prefix,
                              !.snap = inserted,
                              !.captured = GetBucket(prefix)]
    /\ UNCHANGED <<index, w, r, inserted, failed, sliceCall>>

GetDynamicPrefixIterator ==
    /\ failed = "none"
    /\ it' = [NoIterator EXCEPT !.kind = "dynamic"]
    /\ g' = [NoHistory EXCEPT !.op = "GetDynamicPrefixIterator"]
    /\ UNCHANGED <<index, w, r, inserted, failed, sliceCall>>

\* Mutant: Reset leaves the cursor where it is.
Reset_KeepNode(head) == [it EXCEPT !.head = head]

\* Iterator::Reset
Reset(head) == [it EXCEPT !.head = head, !.node = NULL]

\* Iterator::Next; the dynamic iterator inherits it.
Iterator_Next ==
    /\ failed = "none"
    /\ it.kind \in {"prefix", "dynamic"}
    /\ IF ~Valid(it) THEN Abort("Iterator::Next:208")
       ELSE IF next_[it.node] = Poison THEN Abort("uninitialized read")
       ELSE Did("Next", [it EXCEPT !.node = next_[it.node]], NoKey)

\* Iterator::Prev, SeekToFirst and SeekToLast: Reset(nullptr).
Iterator_Prev ==
    /\ failed = "none"
    /\ it.kind \in {"prefix", "dynamic"}
    /\ Did("Prev", Reset(NULL), NoKey)

Iterator_SeekToFirst ==
    /\ failed = "none"
    /\ it.kind \in {"prefix", "dynamic"}
    /\ Did("SeekToFirst", Reset(NULL), NoKey)

Iterator_SeekToLast ==
    /\ failed = "none"
    /\ it.kind \in {"prefix", "dynamic"}
    /\ Did("SeekToLast", Reset(NULL), NoKey)

\* The key a Seek looks for: the memtable key when the caller passes one,
\* else the internal key encoded.
EncodedKey(internal_key, memtable_key) ==
    IF memtable_key # NoKey THEN memtable_key ELSE EncodeKey(internal_key)

\* Mutant: Seek reads the head of the bucket of the key again.
SeekFrom_Rehome(i, internal_key, memtable_key) ==
    LET encoded_key == EncodedKey(internal_key, memtable_key)
        head == GetBucket(Transform(transform_, UserKey(encoded_key)))
    IN  IF WalkSite(head, encoded_key) # "none"
        THEN Abort(WalkSite(head, encoded_key))
        ELSE Did("Seek",
                 [i EXCEPT !.head = head,
                           !.node =
                      FindGreaterOrEqualInBucket(head, encoded_key).x],
                 encoded_key)

\* Iterator::Seek from the head the iterator holds.
SeekFrom(i, internal_key, memtable_key) ==
    LET encoded_key == EncodedKey(internal_key, memtable_key)
    IN  IF WalkSite(i.head, encoded_key) # "none"
        THEN Abort(WalkSite(i.head, encoded_key))
        ELSE Did("Seek",
                 [i EXCEPT !.node =
                      FindGreaterOrEqualInBucket(i.head, encoded_key).x],
                 encoded_key)

Iterator_Seek(internal_key, memtable_key) ==
    /\ failed = "none"
    /\ it.kind = "prefix"
    /\ SeekFrom(it, internal_key, memtable_key)

\* DynamicIterator::Seek: Reset to the bucket of the transform of k, then
\* Iterator::Seek.
DynamicIterator_Seek(k, memtable_key) ==
    /\ failed = "none"
    /\ it.kind = "dynamic"
    /\ IF ~InDomain(transform_, k) THEN Abort("Transform:33")
       ELSE SeekFrom(Reset(GetBucket(Transform(transform_, k))), k,
                     memtable_key)

\* FullListIterator: the skip list iterator, which can go both ways.
FullListIterator_Next ==
    /\ failed = "none"
    /\ it.kind = "full"
    /\ IF ~Valid(it) THEN Abort("FullListIterator::Next:146")
       ELSE Did("Next",
                [it EXCEPT !.pos = IF it.pos < Len(it.list) THEN it.pos + 1
                                   ELSE 0],
                NoKey)

FullListIterator_Prev ==
    /\ failed = "none"
    /\ it.kind = "full"
    /\ IF ~Valid(it) THEN Abort("FullListIterator::Prev:153")
       ELSE Did("Prev", [it EXCEPT !.pos = it.pos - 1], NoKey)

\* Mutant: Seek builds the list again from the buckets as they are now.
FullListIterator_Seek_Live(internal_key, memtable_key) ==
    /\ failed = "none"
    /\ it.kind = "full"
    /\ LET encoded_key == EncodedKey(internal_key, memtable_key)
           list == InsertAll(<<>>, GetIteratorVisit, 1)
       IN  Did("Seek", [it EXCEPT !.list = list,
                                  !.pos = SkipListSeek(list, encoded_key)],
               encoded_key)

FullListIterator_Seek(internal_key, memtable_key) ==
    /\ failed = "none"
    /\ it.kind = "full"
    /\ LET encoded_key == EncodedKey(internal_key, memtable_key)
       IN  Did("Seek", [it EXCEPT !.pos = SkipListSeek(it.list, encoded_key)],
               encoded_key)

FullListIterator_SeekToFirst ==
    /\ failed = "none"
    /\ it.kind = "full"
    /\ Did("SeekToFirst",
           [it EXCEPT !.pos = IF it.list = <<>> THEN 0 ELSE 1], NoKey)

FullListIterator_SeekToLast ==
    /\ failed = "none"
    /\ it.kind = "full"
    /\ Did("SeekToLast", [it EXCEPT !.pos = Len(it.list)], NoKey)

\* EmptyIterator: Next, Prev, Seek, SeekToFirst and SeekToLast do nothing.
EmptyIterator_Op(op) ==
    /\ failed = "none"
    /\ it.kind = "empty"
    /\ Did(op, it, NoKey)

\* A call of key() that returned: the iterator is left as it is.
Returned ==
    /\ g' = [g EXCEPT !.op = "key"]
    /\ UNCHANGED <<index, w, r, it, inserted, failed, sliceCall>>

\* Mutant: key() checks nothing and returns.
Iterator_key_Silent ==
    /\ failed = "none"
    /\ it.kind \in {"prefix", "dynamic"}
    /\ Returned

\* Iterator::key, which the dynamic iterator inherits: asserts Valid() and
\* returns the key of the node (KeyOf).
Iterator_key ==
    /\ failed = "none"
    /\ it.kind \in {"prefix", "dynamic"}
    /\ IF ~Valid(it) THEN Abort("Iterator::key:201")
       ELSE IF key[it.node] = NoKey THEN Abort("uninitialized read")
       ELSE Returned

\* EmptyIterator::key: assert(false).
EmptyIterator_key ==
    /\ failed = "none"
    /\ it.kind = "empty"
    /\ Abort("EmptyIterator::key:289")

Prefixes == {Transform(transform_, u) :
                u \in {u \in UserKeys : InDomain(transform_, u)}}

MemtableKeys(ik) == {NoKey, EncodeKey(ik)}

\* The per-bucket, dynamic and empty iterators.
PrefixIteratorOps ==
    \/ \E prefix \in Prefixes : GetPrefixIterator(prefix)
    \/ GetDynamicPrefixIterator
    \/ Iterator_Next
    \/ Iterator_Prev
    \/ Iterator_SeekToFirst
    \/ Iterator_SeekToLast
    \/ \E ik \in InternalKeys : \E mk \in MemtableKeys(ik) : Iterator_Seek(ik, mk)
    \/ \E ik \in InternalKeys : \E mk \in MemtableKeys(ik) :
          DynamicIterator_Seek(ik, mk)
    \/ \E op \in {"Next", "Prev", "Seek", "SeekToFirst", "SeekToLast"} :
          EmptyIterator_Op(op)

\* The full-order iterator.
FullIteratorOps ==
    \/ GetIterator
    \/ FullListIterator_Next
    \/ FullListIterator_Prev
    \/ \E ik \in InternalKeys : \E mk \in MemtableKeys(ik) :
          FullListIterator_Seek(ik, mk)
    \/ FullListIterator_SeekToFirst
    \/ FullListIterator_SeekToLast

\* ---------------------------------------------------------- specifications
\* One writer and the readers.
Next ==
    \/ Insert(1)
    \/ \E j \in Readers : ContainsByReader(j)

Spec == Init /\ [][Next]_vars

\* The steps of a call of Insert once it is made, and of a call of
\* Contains once it is made.
InsertRun(i) ==
    \/ InsertWalk(i)
    \/ InsertNewNode(i)
    \/ InsertSetNext(i)
    \/ InsertPublish(i)

ContainsRun(j) ==
    \/ ContainsFind(j)
    \/ ContainsReturn(j)

\* Entries not yet inserted that go to the bucket of those inserted.
SameBucket ==
    {k \in Entries \ inserted :
        \A e \in inserted : InsertSlot(k) = InsertSlot(e)}

\* One writer that inserts entries not yet inserted, all into one bucket,
\* and the readers; a thread that is in a call keeps running.
NextLive ==
    \/ \E k \in SameBucket : InsertCall(1, k)
    \/ InsertRun(1)
    \/ \E j \in Readers : \E k \in Entries : ContainsCall(j, k)
    \/ \E j \in Readers : ContainsRun(j)

SpecLive ==
    /\ Init
    /\ [][NextLive]_vars
    /\ WF_vars(InsertRun(1))
    /\ \A j \in Readers : WF_vars(ContainsRun(j))

\* ~Iterator, ~FullListIterator: the iterator is destroyed.
ReleaseIterator ==
    /\ failed = "none"
    /\ it.kind # "none"
    /\ it' = NoIterator
    /\ g' = NoHistory
    /\ UNCHANGED <<index, w, r, inserted, failed, sliceCall>>

\* Every operation, one client at a time: the writer and the readers step
\* by step while no iterator exists, and an iterator of any kind, made,
\* used and destroyed while no call of Insert or Contains is in progress.
NextFrame ==
    \/ it.kind = "none" /\ Insert(1)
    \/ it.kind = "none" /\ \E j \in Readers : ContainsByReader(j)
    \/ /\ \A i \in Writers : w[i].pc = "idle"
       /\ \A j \in Readers : r[j].pc = "idle"
       /\ \/ PrefixIteratorOps
          \/ FullIteratorOps
          \/ Iterator_key
          \/ EmptyIterator_key
          \/ ReleaseIterator

SpecFrame == Init /\ [][NextFrame]_vars

\* Two writers with no serialization between them, their loads and stores
\* interleaved.
NextTwoWriters == \E i \in Writers : Insert(i)

SpecTwoWriters == Init /\ [][NextTwoWriters]_vars

\* Whole calls of Insert and of the operations of a prefix iterator, one
\* at a time.
NextPrefixIter ==
    \/ \E k \in Entries : InsertAtOnce(k)
    \/ PrefixIteratorOps

SpecPrefixIter == Init /\ [][NextPrefixIter]_vars

\* Whole calls of Insert, the making of prefix iterators, Seek and key.
NextIterKey ==
    \/ \E k \in Entries : InsertAtOnce(k)
    \/ \E prefix \in Prefixes : GetPrefixIterator(prefix)
    \/ GetDynamicPrefixIterator
    \/ \E ik \in InternalKeys : \E mk \in MemtableKeys(ik) : Iterator_Seek(ik, mk)
    \/ \E ik \in InternalKeys : \E mk \in MemtableKeys(ik) :
          DynamicIterator_Seek(ik, mk)
    \/ Iterator_key
    \/ EmptyIterator_key

SpecIterKey == Init /\ [][NextIterKey]_vars

\* Whole calls of Insert and of the operations of a full-order iterator,
\* one at a time.
NextFullIter ==
    \/ \E k \in Entries : InsertAtOnce(k)
    \/ FullIteratorOps

SpecFullIter == Init /\ [][NextFullIter]_vars

\* ------------------------------------------------- SliceTransform by itself
MaxSliceLen == 3
MaxPrefixLen == 2

Slices == UNION {SeqsOfLen(n) : n \in 0..MaxSliceLen}

SliceTransforms ==
    {FixedPrefixTransform(k) : k \in 0..MaxPrefixLen}
        \cup {CappedPrefixTransform(k) : k \in 0..MaxPrefixLen}
        \cup {NoopTransform}

\* A transform, a prefix and a suffix, before any call.
InitSlice ==
    /\ bucket_size_ = MaxBuckets
    /\ transform_ = NoopTransform
    /\ buckets_ = [i \in 0..(bucket_size_ - 1) |-> NULL]
    /\ key = [n \in Nodes |-> NoKey]
    /\ next_ = [n \in Nodes |-> Poison]
    /\ allocated = 0
    /\ w = [i \in Writers |-> WriterIdle]
    /\ r = [i \in Readers |-> ReaderIdle]
    /\ it = NoIterator
    /\ g = NoHistory
    /\ inserted = {}
    /\ failed = "none"
    /\ sliceCall \in {[NoCall EXCEPT !.pc = "input", !.t = t, !.prefix = p,
                                     !.suffix = x] :
                         t \in SliceTransforms, p \in Slices, x \in Slices}

\* SameResultWhenAppended(prefix)
SliceSameResultWhenAppended ==
    /\ failed = "none"
    /\ sliceCall.pc = "input"
    /\ sliceCall' = [sliceCall EXCEPT
                        !.pc = "asked",
                        !.same = SameResultWhenAppended(sliceCall.t,
                                                        sliceCall.prefix)]
    /\ UNCHANGED <<index, w, r, it, g, inserted, failed>>

\* Transform(prefix) and Transform(prefix || suffix); Transform asserts
\* InDomain of its argument.
SliceTransform ==
    /\ failed = "none"
    /\ sliceCall.pc = "asked"
    /\ IF ~InDomain(sliceCall.t, sliceCall.prefix)
       THEN Abort("Transform:33")
       ELSE /\ sliceCall' = [sliceCall EXCEPT
                               !.pc = "done",
                               !.alone = Transform(sliceCall.t,
                                                   sliceCall.prefix),
                               !.whole = Transform(sliceCall.t,
                                                   sliceCall.prefix
                                                       \o sliceCall.suffix)]
            /\ UNCHANGED <<index, w, r, it, g, inserted, failed>>

NextSlice ==
    \/ SliceSameResultWhenAppended
    \/ SliceTransform

SpecSlice == InitSlice /\ [][NextSlice]_vars

\* ------------------------------------------------------------------ claims
Buckets == DOMAIN buckets_

Reachable(n) == \E i \in Buckets : \E p \in DOMAIN Chain(i) : Chain(i)[p] = n

Initialized(n) == n \in 1..allocated /\ key[n] # NoKey /\ next_[n] # Poison

StrictlyIncreasing(c) ==
    \A p \in 1..(Len(c) - 1) : compare_(key[c[p]], key[c[p + 1]]) < 0

Quiescent == \A i \in Writers : w[i].pc = "idle"

\* C1: once every Insert call has returned, the chain of every bucket is
\* strictly increasing under the comparator.
C1_ChainsSorted ==
    Quiescent => \A i \in Buckets : StrictlyIncreasing(Chain(i))

\* A bucket of three nodes whose last-allocated node is not the last of the
\* chain: Insert linked it in before an older node.
C1_Witness ==
    /\ Quiescent
    /\ \E i \in Buckets :
          /\ Len(Chain(i)) = 3
          /\ Chain(i)[2] = 3
          /\ StrictlyIncreasing(Chain(i))

\* C2: once every Insert call has returned, Contains is true of exactly the
\* entries inserted.
C2_ContainsExact ==
    Quiescent =>
        \A e \in Entries :
            InDomain(transform_, UserKey(e)) => (Contains(e) <=> e \in inserted)

\* An inserted entry and a never-inserted one of another prefix share a
\* bucket: Contains tells them apart.
C2_Witness ==
    /\ Quiescent
    /\ \E e \in inserted : \E f \in Entries \ inserted :
          /\ InsertSlot(e) = InsertSlot(f)
          /\ Transform(transform_, UserKey(e)) # Transform(transform_, UserKey(f))
          /\ Contains(e)
          /\ ~Contains(f)

\* C3: every node a reader holds, and every node reachable from a bucket
\* head, has its key and its successor link initialized; no reader reads
\* uninitialized memory.
C3_NoPartialNode ==
    /\ failed # "uninitialized read"
    /\ \A n \in Nodes : Reachable(n) => Initialized(n)
    /\ \A j \in Readers :
          /\ r[j].head # NULL => Initialized(r[j].head)
          /\ r[j].x # NULL => Initialized(r[j].x)

\* A reader stands on a node that was published after its call began.
C3_Witness ==
    \E j \in Readers :
        /\ r[j].pc = "find"
        /\ r[j].x # NULL
        /\ r[j].x > r[j].born
        /\ Initialized(r[j].x)

\* C4: a Contains(e) that starts after Insert(e) has returned returns true.
C4_ReadAfterInsert ==
    \A j \in Readers : (r[j].pc = "done" /\ r[j].after) => r[j].result

\* Such a call returned true although another Insert returned while it ran.
C4_Witness ==
    \E j \in Readers :
        /\ r[j].pc = "done"
        /\ r[j].after
        /\ r[j].result
        /\ Cardinality(inserted) > r[j].born

\* Entries ever passed to Insert.
Passed == inserted \cup {w[i].key : i \in {i \in Writers : w[i].pc # "idle"}}

\* C5: no reader returns true for an entry never passed to Insert, the
\* sortedness assertion of the bucket walk never fails, and every node a
\* reader stands on is before its successor.
C5_ReaderSound ==
    /\ failed # "FindGreaterOrEqualInBucket:432"
    /\ failed # "Insert:345"
    /\ \A j \in Readers :
          /\ (r[j].pc = "done" /\ r[j].result) => r[j].key \in Passed
          /\ (r[j].pc = "find" /\ r[j].x # NULL /\ next_[r[j].x] # NULL) =>
                compare_(key[r[j].x], key[next_[r[j].x]]) < 0

\* A reader past the head is about to check the assertion on a real pair,
\* an Insert having returned since its call began.
C5_Witness ==
    \E j \in Readers :
        /\ r[j].pc = "find"
        /\ r[j].x # NULL
        /\ r[j].x # r[j].head
        /\ next_[r[j].x] # NULL
        /\ Cardinality(inserted) > r[j].born

\* C6: a node reachable from its bucket head stays reachable, and an entry
\* that Contains finds stays found, across every step (a step that leaves
\* the index untouched changes neither).
C6_Monotonic ==
    [][\/ UNCHANGED index
       \/ /\ \A n \in Nodes : Reachable(n) => Reachable(n)'
          /\ \A e \in Entries :
                (InDomain(transform_, UserKey(e)) /\ Contains(e))
                    => Contains(e)']_vars

\* Three inserts into one bucket, the last one in front of the older
\* nodes, and every one of them still found.
C6_Witness ==
    /\ Quiescent
    /\ Cardinality(inserted) = 3
    /\ \E i \in Buckets : Len(Chain(i)) = 3 /\ Chain(i)[1] = 3
    /\ \A e \in inserted : Contains(e)

\* Every entry linked into bucket i hashes, by the transformed user key,
\* to i.
C7_BucketOfEntry ==
    \A i \in Buckets : \A p \in DOMAIN Chain(i) :
        MurmurHash(Transform(transform_, UserKey(key[Chain(i)[p]])))
            % bucket_size_ = i

\* C7: every entry stored in bucket i hashes to i, and the number of
\* buckets never changes.
C7_BucketsFixed ==
    /\ []C7_BucketOfEntry
    /\ [][bucket_size_' = bucket_size_ /\ DOMAIN buckets_' = DOMAIN buckets_]_vars

\* Two buckets are in use, one of them holding two entries.
C7_Witness ==
    /\ bucket_size_ >= 2
    /\ \E i, j \in Buckets :
        i # j /\ Len(Chain(i)) >= 1 /\ Len(Chain(j)) >= 2

Range(q) == {q[p] : p \in DOMAIN q}

SortedKeys(q) ==
    \A p \in 1..(Len(q) - 1) : compare_(q[p], q[p + 1]) < 0

\* C8: a full-order iterator walked with SeekToFirst and then Next visits
\* entries in strictly increasing order, only entries inserted when it was
\* built, and, once it is invalid, each of them exactly once.
C8_FullOrderWalk ==
    (it.kind = "full" /\ g.walking) =>
        /\ SortedKeys(g.walk)
        /\ Range(g.walk) \subseteq g.snap
        /\ Valid(it) => g.walk[Len(g.walk)] = KeyOf(it)
        /\ ~Valid(it) =>
              Range(g.walk) = g.snap /\ Len(g.walk) = Cardinality(g.snap)

\* A finished walk over three entries of two buckets, the first entry
\* inserted not being the first visited.
C8_Witness ==
    /\ it.kind = "full"
    /\ g.walking
    /\ ~Valid(it)
    /\ Len(g.walk) = 3
    /\ g.walk[1] # key[1]
    /\ \E i, j \in Buckets :
        i # j /\ buckets_[i] # NULL /\ buckets_[j] # NULL

\* C9: a per-bucket prefix iterator that a Seek left valid and Prev or
\* SeekToFirst then left invalid is valid again after the same Seek.
C9_ReseekRestores ==
    (it.kind = "prefix" /\ g.phase = 3) => Valid(it)

C11_DynamicSeekBucket ==
    [][(/\ UNCHANGED index
        /\ failed' = "none"
        /\ it'.kind = "dynamic"
        /\ g'.op = "Seek"
        /\ (it' # it \/ g' # g))
       => it'.node =
            FindGreaterOrEqualInBucket(buckets_[InsertSlot(g'.target)],
                                       g'.target).x]_vars

\* The keys of chain c, in chain order.
KeysOf(c) == [p \in DOMAIN c |-> key[c[p]]]

\* The keys of the bucket of prefix that are at or after target, in chain
\* order.
AtOrAfter(prefix, target) ==
    LET ks == KeysOf(Chain(GetHash(prefix)))
        first == Cardinality({p \in DOMAIN ks : compare_(ks[p], target) < 0})
    IN  SubSeq(ks, first + 1, Len(ks))

\* C12: on a per-bucket iterator made for a prefix, with no Insert since
\* it was made, the keys visited by Seek and then Next are the first keys at
\* or after the target in the bucket of the prefix, in increasing order;
\* once the iterator is invalid they are all of them, every inserted entry
\* of the prefix at or after the target among them.
C12_PrefixSeekNext ==
    (it.kind = "prefix" /\ g.walking /\ g.snap = inserted /\ failed = "none") =>
        \E ge \in {AtOrAfter(g.prefix, g.target)} :
            /\ Len(g.walk) <= Len(ge)
            /\ g.walk = SubSeq(ge, 1, Len(g.walk))
            /\ SortedKeys(g.walk)
            /\ Valid(it) => g.walk # <<>> /\ KeyOf(it) = g.walk[Len(g.walk)]
            /\ ~Valid(it) =>
                  /\ g.walk = ge
                  /\ \A e \in inserted :
                        (Transform(transform_, UserKey(e)) = g.prefix
                            /\ compare_(e, g.target) >= 0)
                        => e \in Range(g.walk)

\* C13: when SameResultWhenAppended(p) is true, Transform(p || s) is p, for
\* every suffix s.
C13_AppendedIsPrefix ==
    (sliceCall.pc = "done" /\ sliceCall.same) => sliceCall.whole = sliceCall.prefix

\* C13, amended: when SameResultWhenAppended(p) is true, Transform(p || s)
\* is Transform(p), for every suffix s.
C13_AppendedSameResult ==
    (sliceCall.pc = "done" /\ sliceCall.same) => sliceCall.whole = sliceCall.alone

\* A capped prefix shorter than p, and a suffix that is not empty.
C13_Witness ==
    /\ sliceCall.pc = "done"
    /\ sliceCall.same
    /\ sliceCall.t.kind = "capped"
    /\ Len(sliceCall.prefix) > sliceCall.t.len
    /\ sliceCall.suffix # <<>>
    /\ sliceCall.whole = sliceCall.alone
    /\ sliceCall.whole # sliceCall.prefix

\* C14: key() on an invalid empty, per-bucket or dynamic iterator fails no
\* assertion.
C14_KeyOnInvalidSilent ==
    failed \notin {"Iterator::key:201", "EmptyIterator::key:289"}

\* C14, amended: key() returns only on a valid iterator; on an invalid
\* per-bucket or dynamic iterator it fails assert(Valid()), on an empty
\* iterator assert(false).
C14_KeyRequiresValid ==
    /\ g.op = "key" => Valid(it)
    /\ failed = "Iterator::key:201" =>
          it.kind \in {"prefix", "dynamic"} /\ ~Valid(it)
    /\ failed = "EmptyIterator::key:289" => it.kind = "empty"

\* key() has failed its assertion on a dynamic iterator whose Seek found
\* nothing in a memtable that is not empty.
C14_Witness ==
    /\ failed = "Iterator::key:201"
    /\ it.kind = "dynamic"
    /\ g.op = "Seek"
    /\ inserted # {}

\* C15: an Insert of an entry already present goes no further than the
\* assertion of its first line: no call is ever past it with such an entry,
\* the second duplicate assertion never has to fire, and the step on which
\* the first one fails leaves the index as it was.
C15_DuplicateRejected ==
    /\ [](/\ failed # "Insert:357"
          /\ \A i \in Writers : w[i].pc # "idle" => w[i].key \notin inserted)
    /\ [][failed' = "Insert:322" =>
            (failed = "none" /\ inserted # {} /\ UNCHANGED <<index, inserted>>)]_vars

\* The assertion has failed on an index of two entries.
C15_Witness ==
    /\ failed = "Insert:322"
    /\ Cardinality(inserted) = 2
    /\ \A e \in inserted : Contains(e)

NoRepeat(c) == Cardinality(Range(c)) = Len(c)

\* The place of a step of Insert in the order of its code.
PcOrder(pc) ==
    IF pc = "idle" THEN 0 ELSE IF pc = "walk" THEN 1 ELSE IF pc = "new" THEN 2
    ELSE IF pc = "setnext" THEN 3 ELSE 4

\* C16: a walk of Contains that has begun returns and a call of Insert
\* that has begun returns, whatever the other thread does; a reader only
\* moves to a node of greater key, so to no node twice; the chains have no
\* cycle; Insert only moves forward through its code, with no retry.
C16_Terminates ==
    /\ \A j \in Readers : (r[j].pc = "find") ~> (r[j].pc = "done")
    /\ (w[1].pc # "idle") ~> (w[1].pc = "idle")
    /\ [](/\ \A i \in Buckets : NoRepeat(Chain(i))
          /\ \A j \in Readers : NoRepeat(ChainFrom(r[j].x, MaxNodes + 1)))
    /\ [][/\ \A j \in Readers :
               (r[j].pc = "find" /\ r'[j].x # r[j].x /\ r'[j].x # NULL)
                   => compare_(key[r[j].x], key[r'[j].x]) < 0
           /\ \A i \in Writers :
               (w'[i].pc # w[i].pc /\ w'[i].pc # "idle")
                   => PcOrder(w'[i].pc) > PcOrder(w[i].pc)]_vars

\* A reader has returned from a walk of more than one node during which
\* an Insert returned.
C16_Witness ==
    \E j \in Readers :
        /\ r[j].pc = "done"
        /\ r[j].x # NULL
        /\ r[j].x # r[j].head
        /\ next_[r[j].head] # r[j].x
        /\ Cardinality(inserted) > r[j].born

\* The bucket heads and the successor links of reachable nodes that a
\* step changes.
ChangedHeads == {i \in Buckets : buckets_'[i] # buckets_[i]}

ChangedLinks == {n \in Nodes : Reachable(n) /\ next_'[n] # next_[n]}

\* C17: the step on which an Insert returns changes exactly one cell that
\* readers can see, the head of the bucket of the entry or the successor
\* link of one node of that bucket; every other step, of Insert, of
\* Contains or of an iterator, changes none; no step changes the key of a
\* node.
C17_Frame ==
    [][\/ UNCHANGED <<buckets_, next_, key>>
       \/ /\ \A n \in 1..allocated : key'[n] = key[n]
          /\ IF inserted' # inserted
             THEN \E e \in inserted' \ inserted :
                    /\ Cardinality(ChangedHeads) + Cardinality(ChangedLinks) = 1
                    /\ ChangedHeads \subseteq {InsertSlot(e)}
                    /\ ChangedLinks \subseteq Range(Chain(InsertSlot(e)))
             ELSE ChangedHeads = {} /\ ChangedLinks = {}]_vars

\* An iterator is in use on an index whose last Insert stored into the
\* successor link of an older node, not into a bucket head.
C17_Witness ==
    /\ it.kind \in {"prefix", "dynamic", "full"}
    /\ Valid(it)
    /\ Cardinality(inserted) = 3
    /\ \E n \in Nodes : next_[n] = 3 /\ Reachable(n)

\* The nodes reachable from the bucket head read by GetPrefixIterator.
FromCaptured == Range(ChainFrom(g.captured, MaxNodes + 1))

\* C18: an iterator from GetPrefixIterator that found its bucket empty is
\* invalid whatever is done later; one that found a head yields only nodes
\* reachable from that head, so none that sorts before it.
C18_CapturedHead ==
    (g.prefix # NoKey /\ failed = "none") =>
        /\ g.captured = NULL => ~Valid(it)
        /\ Valid(it) =>
              /\ it.node \in FromCaptured
              /\ compare_(key[g.captured], KeyOf(it)) <= 0

\* The iterator is on an entry inserted after it was made, while another
\* entry of its bucket, inserted later as well and sorting before the head
\* it read, cannot be reached from that head.
C18_Witness ==
    /\ it.kind = "prefix"
    /\ Valid(it)
    /\ KeyOf(it) \notin g.snap
    /\ \E n \in Range(Chain(GetHash(g.prefix))) :
          key[n] \notin g.snap /\ n \notin FromCaptured

\* Entries whose Insert returned that cannot be reached from the head of
\* their bucket.
Lost == {e \in inserted : e \notin Range(KeysOf(Chain(InsertSlot(e))))}

\* C19: with two writers an inserted entry is out of reach of its bucket
\* head only if calls of Insert overlapped; C19_Witness is the state the
\* claim says can be reached.
C19_LostOnlyByRace ==
    Lost # {} => \E i \in Writers : w[i].raced

\* Both calls have returned, for two entries of one bucket, and one of the
\* entries is lost: Contains is false of it.
C19_Witness ==
    /\ Quiescent
    /\ failed = "none"
    /\ Cardinality(inserted) = 2
    /\ allocated = 2
    /\ \E e \in inserted : \E f \in inserted \ {e} :
          /\ InsertSlot(e) = InsertSlot(f)
          /\ e \in Lost
          /\ ~Contains(e)
          /\ Contains(f)

\* C20: whatever is inserted after GetIterator and whatever is done with
\* the iterator, the entries it holds are exactly those inserted when it
\* was built, each once and in order, and the entry it is on is one of them.
C20_FullSnapshot ==
    it.kind = "full" =>
        /\ Range(it.list) = g.snap
        /\ Len(it.list) = Cardinality(g.snap)
        /\ SortedKeys(it.list)
        /\ it.pos \in 0..Len(it.list)
        /\ Valid(it) => KeyOf(it) \in g.snap

\* A Seek for an entry inserted after the iterator was built has left the
\* iterator on an older entry.
C20_Witness ==
    /\ it.kind = "full"
    /\ g.op = "Seek"
    /\ g.target \in inserted \ g.snap
    /\ Valid(it)
    /\ KeyOf(it) # g.target

====
